---- MODULE Spec2Model ----
(***************************************************************************)
(* Model of boilr.trainer.Trainer (src/boilr/trainer.py): the constructor  *)
(* __init__, the training loop run(), the evaluation pass _test() and the  *)
(* final validation _check_experiment().  Collaborator hooks of the        *)
(* experiment object are inputs: each may return or raise, and the setup   *)
(* hooks may or may not set the attribute they are meant to set.           *)
(***************************************************************************)
EXTENDS Integers, Sequences, FiniteSets, TLC

\* ---- bounds of the model ----
MaxInterval == 3      \* intervals are drawn from 1..MaxInterval
MaxEpochs == 2        \* e.max_epochs is drawn from 1..MaxEpochs
NumBatches == 3       \* len(train_loader): batches per epoch
MaxStart == 2         \* model.global_step when run() starts, 0..MaxStart

VARIABLES
    pc,                  \* position in __init__ / run / _test
    err,                 \* the exception that ended construction or run
    checkpoint_interval, \* args.checkpoint_interval
    test_log_interval,   \* args.test_log_interval
    log_interval,        \* args.log_interval
    dry_run,             \* args.dry_run
    max_epochs,          \* e.max_epochs
    create_optimizer,    \* parameter of __init__
    have_tensorboard,    \* module flag set by the import at lines 6-13
    experiment,          \* which attributes of the experiment are not None
    dirs,                \* directories created by os.makedirs
    config_written,      \* config.pkl has been written
    tb_writer,           \* self.tb_writer is not None
    ctor_log,            \* order of the constructor's side effects
    train_history,       \* self.train_history
    test_history,        \* self.test_history
    log_file,            \* content of self.log_path (log.pkl)
    tb_scalars,          \* scalars sent to the tensorboard writer
    checkpoints,         \* steps at which e.model.checkpoint was called
    global_step,         \* e.model.global_step
    start_step,          \* e.model.global_step when run() was entered
    batches_done,        \* batches fully processed by run()
    mode,                \* "train" / "eval" / "unset": mode of e.model
    progress,            \* "None" / "open" / "closed": local progress
    summ_count,          \* batches held by train_summarizers
    epoch,               \* loop variable epoch
    batch_idx,           \* loop variable batch_idx
    step,                \* local step of run()
    test_step            \* local step of _test()

vars == <<pc, err, checkpoint_interval, test_log_interval, log_interval,
          dry_run, max_epochs, create_optimizer, have_tensorboard,
          experiment, dirs, config_written, tb_writer, ctor_log,
          train_history, test_history, log_file, tb_scalars, checkpoints,
          global_step, start_step, batches_done, mode, progress, summ_count,
          epoch, batch_idx, step, test_step>>

argsVars == <<checkpoint_interval, test_log_interval, log_interval, dry_run,
              max_epochs, create_optimizer, have_tensorboard>>
fsVars == <<dirs, config_written, tb_writer, log_file, tb_scalars, checkpoints>>
histVars == <<train_history, test_history>>
loopVars == <<epoch, batch_idx, step, test_step, start_step, batches_done,
              summ_count>>

\* ---- pure helpers ----

\* History.add(summaries, step): one record appended at the end
HistoryAdd(h, s) == Append(h, [step |-> s])

\* model.increment_global_step()
IncrementGlobalStep(s) == s + 1

Steps(h) == {h[i].step : i \in DOMAIN h}

IsPrefix(a, b) == Len(a) <= Len(b) /\ \A i \in DOMAIN a : a[i] = b[i]

\* line 29: assert args.checkpoint_interval % args.test_log_interval == 0
IntervalsOKAlways == TRUE
IntervalsOK == checkpoint_interval % test_log_interval = 0

\* line 107: if step % e.args.test_log_interval == 0
TestDueNext(s) == (s + 1) % test_log_interval = 0
TestDue(s) == s % test_log_interval = 0

\* line 114: if step > 0 and step % e.args.checkpoint_interval == 0
ShouldCheckpointAtZero(s) == s % checkpoint_interval = 0
ShouldCheckpoint(s) == s > 0 /\ s % checkpoint_interval = 0

\* line 138: if (step + 1) % e.args.test_log_interval == 0
CloseDue(s) == (s + 1) % test_log_interval = 0

\* line 142: if (step + 1) % e.args.log_interval == 0
LogDueAtStep(s) == s % log_interval = 0
LogDue(s) == (s + 1) % log_interval = 0

\* order of the stages of __init__
CtorOrderCheckFirst ==
    <<"assert", "check", "folders", "dataset", "model", "optimizer">>
CtorOrder == <<"assert", "folders", "dataset", "model", "optimizer", "check">>

NextCtor(p) ==
    LET i == CHOOSE k \in DOMAIN CtorOrder : CtorOrder[k] = p
    IN IF i < Len(CtorOrder) THEN CtorOrder[i + 1] ELSE "constructed"

\* _check_experiment: assert not (None in attributes)
CheckExperiment(e, opt) ==
    /\ e.device /\ e.dataloaders /\ e.model /\ e.args /\ e.run_description
    /\ (opt => e.optimizer)

Fail(e) == pc' = "failed" /\ err' = e

\* ---- initial state: before Trainer(experiment, create_optimizer) ----
Init ==
    /\ pc = CtorOrder[1]
    /\ err = "none"
    /\ checkpoint_interval \in 1..MaxInterval
    /\ test_log_interval \in 1..MaxInterval
    /\ log_interval \in 1..MaxInterval
    /\ dry_run \in BOOLEAN
    /\ max_epochs \in 1..MaxEpochs
    /\ create_optimizer \in BOOLEAN
    /\ have_tensorboard \in BOOLEAN
    /\ experiment = [device |-> FALSE, dataloaders |-> FALSE, model |-> FALSE,
                     args |-> TRUE, run_description |-> TRUE,
                     optimizer |-> FALSE]
    /\ dirs = {}
    /\ config_written = FALSE
    /\ tb_writer = FALSE
    /\ ctor_log = <<>>
    /\ train_history = <<>>
    /\ test_history = <<>>
    /\ log_file = [exists |-> FALSE, content |-> <<>>]
    /\ tb_scalars = {}
    /\ checkpoints = <<>>
    /\ global_step = 0
    /\ start_step = 0
    /\ batches_done = 0
    /\ mode = "unset"
    /\ progress = "None"
    /\ summ_count = 0
    /\ epoch = 0
    /\ batch_idx = 0
    /\ step = 0
    /\ test_step = 0

\* ---- __init__ ----

\* lines 26-47: interval assertion, histories, seed, device
Ctor_Assert ==
    /\ pc = "assert"
    /\ IF IntervalsOK
       THEN /\ pc' = NextCtor("assert")
            /\ experiment' = [experiment EXCEPT !.device = TRUE]
            /\ train_history' = <<>>
            /\ test_history' = <<>>
            /\ err' = err
       ELSE /\ Fail("AssertionError:intervals")
            /\ UNCHANGED <<experiment, histVars>>
    /\ UNCHANGED <<argsVars, fsVars, ctor_log, global_step, mode, progress,
                   loopVars>>

\* lines 49-66: paths, run folders, tensorboard writer, config.pkl
Ctor_Folders ==
    /\ pc = "folders"
    /\ \E exists \in BOOLEAN :
         IF dry_run
         THEN /\ pc' = NextCtor("folders")
              /\ UNCHANGED <<err, dirs, tb_writer, config_written, ctor_log>>
         ELSE IF exists
         THEN \* os.makedirs(result_folder) raises: the folder pre-exists
              /\ Fail("FileExistsError")
              /\ UNCHANGED <<dirs, tb_writer, config_written, ctor_log>>
         ELSE /\ pc' = NextCtor("folders")
              /\ err' = err
              /\ dirs' = {"results", "imgs", "checkpoints"}
                           \cup (IF have_tensorboard THEN {"tensorboard"} ELSE {})
              /\ tb_writer' = have_tensorboard
              /\ config_written' = TRUE
              /\ ctor_log' = ctor_log \o <<"makedirs", "config">>
    /\ UNCHANGED <<argsVars, experiment, histVars, log_file, tb_scalars,
                   checkpoints, global_step, mode, progress, loopVars>>

\* lines 68-75: make_and_set_datamanager, then the dataloaders are read
Ctor_Dataset ==
    /\ pc = "dataset"
    /\ \E set \in BOOLEAN :
         /\ experiment' = [experiment EXCEPT !.dataloaders = set]
         /\ IF set THEN pc' = NextCtor("dataset") /\ err' = err
                   ELSE Fail("AttributeError:dataloaders")
    /\ ctor_log' = Append(ctor_log, "datamanager")
    /\ UNCHANGED <<argsVars, fsVars, histVars, global_step, mode, progress,
                   loopVars>>

\* lines 77-80: make_and_set_model; the model brings its global_step
Ctor_Model ==
    /\ pc = "model"
    /\ \E set \in BOOLEAN, s \in 0..MaxStart, raises \in BOOLEAN :
         /\ experiment' = [experiment EXCEPT !.model = set]
         /\ global_step' = IF set THEN s ELSE 0
         \* print_num_params(None, ...) may or may not raise
         /\ IF ~set /\ raises
            THEN Fail("Error:print_num_params")
            ELSE pc' = NextCtor("model") /\ err' = err
    /\ ctor_log' = Append(ctor_log, "model")
    /\ UNCHANGED <<argsVars, fsVars, histVars, mode, progress, loopVars>>

\* lines 82-84: make_and_set_optimizer, only if create_optimizer
Ctor_Optimizer ==
    /\ pc = "optimizer"
    /\ IF create_optimizer
       THEN /\ \E set \in BOOLEAN :
                 experiment' = [experiment EXCEPT !.optimizer = set]
            /\ ctor_log' = Append(ctor_log, "optimizer")
       ELSE \* e.optimizer is whatever the experiment was given
            /\ \E set \in BOOLEAN :
                 experiment' = [experiment EXCEPT !.optimizer = set]
            /\ UNCHANGED ctor_log
    /\ pc' = NextCtor("optimizer")
    /\ UNCHANGED <<err, argsVars, fsVars, histVars, global_step, mode,
                   progress, loopVars>>

\* lines 86-87: self._check_experiment(experiment, create_optimizer)
Ctor_Check ==
    /\ pc = "check"
    /\ IF CheckExperiment(experiment, create_optimizer)
       THEN pc' = NextCtor("check") /\ err' = err
       ELSE Fail("AssertionError:check")
    /\ ctor_log' = Append(ctor_log, "check")
    /\ UNCHANGED <<argsVars, experiment, fsVars, histVars, global_step, mode,
                   progress, loopVars>>

\* ---- run ----

Raise(e) == pc' = "error" /\ err' = e

\* lines 92-100: setup, e.model.train()
Run_Setup ==
    /\ pc = "constructed"
    /\ pc' = "next_batch"
    /\ progress' = "None"
    /\ summ_count' = 0
    /\ mode' = "train"
    /\ epoch' = 1
    /\ batch_idx' = 0
    /\ start_step' = global_step
    /\ UNCHANGED <<err, argsVars, experiment, fsVars, ctor_log, histVars,
                   global_step, batches_done, step, test_step>>

\* lines 103-107: the two for loops, step = e.model.global_step, test due?
Run_NextBatch ==
    /\ pc = "next_batch"
    /\ IF batch_idx < NumBatches
       THEN /\ step' = global_step
            /\ pc' = IF TestDue(global_step) THEN "test" ELSE "forward"
            /\ UNCHANGED <<epoch, batch_idx>>
       ELSE IF epoch < max_epochs
       THEN /\ epoch' = epoch + 1
            /\ batch_idx' = 0
            /\ UNCHANGED <<pc, step>>
       ELSE /\ pc' = "done"
            /\ UNCHANGED <<epoch, batch_idx, step>>
    /\ UNCHANGED <<err, argsVars, experiment, fsVars, ctor_log, histVars,
                   global_step, start_step, batches_done, mode, progress,
                   summ_count, test_step>>

\* lines 167-172: _test entered, step read, e.model.eval()
Test_Begin ==
    /\ pc = "test"
    /\ test_step' = global_step
    /\ mode' = "eval"
    /\ pc' = "test_procedure"
    /\ UNCHANGED <<err, argsVars, experiment, fsVars, ctor_log, histVars,
                   global_step, start_step, batches_done, progress,
                   summ_count, epoch, batch_idx, step>>

\* line 175: summaries = e.test_procedure()
Test_Procedure ==
    /\ pc = "test_procedure"
    /\ \E ok \in BOOLEAN :
         IF ok THEN pc' = "additional_testing" /\ err' = err
               ELSE Raise("test_procedure")
    /\ UNCHANGED <<argsVars, experiment, fsVars, ctor_log, histVars,
                   global_step, mode, progress, loopVars>>

\* line 178: e.additional_testing(self.img_folder)
Test_Additional ==
    /\ pc = "additional_testing"
    /\ \E ok \in BOOLEAN :
         IF ok THEN pc' = "print_test_log" /\ err' = err
               ELSE Raise("additional_testing")
    /\ UNCHANGED <<argsVars, experiment, fsVars, ctor_log, histVars,
                   global_step, mode, progress, loopVars>>

\* line 181: e.print_test_log(summaries, step, epoch)
Test_PrintLog ==
    /\ pc = "print_test_log"
    /\ \E ok \in BOOLEAN :
         IF ok THEN pc' = "test_record" /\ err' = err
               ELSE Raise("print_test_log")
    /\ UNCHANGED <<argsVars, experiment, fsVars, ctor_log, histVars,
                   global_step, mode, progress, loopVars>>

\* lines 183-195: test history, tensorboard scalars, log.pkl
Test_Record ==
    /\ pc = "test_record"
    /\ test_history' = HistoryAdd(test_history, test_step)
    /\ \E ok \in BOOLEAN :
         IF dry_run
         THEN /\ pc' = "test_end" /\ err' = err
              /\ UNCHANGED <<tb_scalars, log_file>>
         ELSE /\ tb_scalars' = IF tb_writer
                               THEN tb_scalars \cup {<<"validation", test_step>>}
                               ELSE tb_scalars
              /\ IF ok
                 THEN /\ pc' = "test_end" /\ err' = err
                      /\ log_file' = [exists |-> TRUE, content |-> test_history']
                 ELSE /\ Raise("test_log_write")
                      /\ UNCHANGED log_file
    /\ UNCHANGED <<argsVars, experiment, dirs, config_written, tb_writer,
                   checkpoints, ctor_log, train_history, global_step, mode,
                   progress, loopVars>>

\* lines 197-198: e.model.train(), _test returns
Test_End ==
    /\ pc = "test_end"
    /\ mode' = "train"
    /\ pc' = "after_test"
    /\ UNCHANGED <<err, argsVars, experiment, fsVars, ctor_log, histVars,
                   global_step, progress, loopVars>>

\* lines 113-119: model checkpoint, progress bar restarted
Run_Checkpoint ==
    /\ pc = "after_test"
    /\ \E ok \in BOOLEAN :
         IF ShouldCheckpoint(step)
         THEN IF ok
              THEN /\ checkpoints' = Append(checkpoints, step)
                   /\ progress' = "open"
                   /\ pc' = "forward" /\ err' = err
              ELSE /\ Raise("checkpoint")
                   /\ UNCHANGED <<checkpoints, progress>>
         ELSE /\ progress' = "open"
              /\ pc' = "forward" /\ err' = err
              /\ UNCHANGED checkpoints
    /\ UNCHANGED <<argsVars, experiment, dirs, config_written, tb_writer,
                   log_file, tb_scalars, ctor_log, histVars, global_step,
                   mode, loopVars>>

\* lines 121-132: zero_grad, forward pass, backward, metrics to summarizers
Run_Forward ==
    /\ pc = "forward"
    /\ \E ok \in BOOLEAN :
         \* e.optimizer.zero_grad() raises when e.optimizer is None
         IF ok /\ experiment.optimizer
               THEN /\ pc' = "progress_update" /\ err' = err
                    /\ summ_count' = summ_count + 1
               ELSE /\ Raise("forward_pass")
                    /\ UNCHANGED summ_count
    /\ UNCHANGED <<argsVars, experiment, fsVars, ctor_log, histVars,
                   global_step, mode, progress, epoch, batch_idx, step,
                   test_step, start_step, batches_done>>

\* lines 134-140: progress.update(), progress.close() before the next test
Run_Progress ==
    /\ pc = "progress_update"
    /\ IF progress = "None"
       THEN /\ Raise("AttributeError:progress")
            /\ UNCHANGED progress
       ELSE /\ pc' = "train_log" /\ err' = err
            /\ progress' = IF CloseDue(step) THEN "closed" ELSE progress
    /\ UNCHANGED <<argsVars, experiment, fsVars, ctor_log, histVars,
                   global_step, mode, loopVars>>

\* lines 142-159: summarizer flush, print, train history, log.pkl, scalars
Run_TrainLog ==
    /\ pc = "train_log"
    /\ IF LogDue(step)
       THEN \E printed \in BOOLEAN, ok \in BOOLEAN :
              /\ summ_count' = 0
              /\ IF ~printed
                 THEN /\ Raise("print_train_log")
                      /\ UNCHANGED <<train_history, log_file, tb_scalars>>
                 ELSE /\ train_history' = HistoryAdd(train_history, step)
                      /\ IF dry_run
                         THEN /\ pc' = "opt_step" /\ err' = err
                              /\ UNCHANGED <<log_file, tb_scalars>>
                         ELSE IF ok
                         THEN /\ pc' = "opt_step" /\ err' = err
                              /\ log_file' = [exists |-> TRUE,
                                              content |-> train_history']
                              /\ tb_scalars' =
                                   IF tb_writer
                                   THEN tb_scalars \cup {<<"train", step>>}
                                   ELSE tb_scalars
                         ELSE /\ Raise("train_log_write")
                              /\ UNCHANGED <<log_file, tb_scalars>>
       ELSE /\ pc' = "opt_step" /\ err' = err
            /\ UNCHANGED <<summ_count, train_history, log_file, tb_scalars>>
    /\ UNCHANGED <<argsVars, experiment, dirs, config_written, tb_writer,
                   checkpoints, ctor_log, test_history, global_step, mode,
                   progress, epoch, batch_idx, step, test_step, start_step,
                   batches_done>>

\* lines 161-165: optimizer step, increment_global_step, end of the batch
Run_OptStep ==
    /\ pc = "opt_step"
    /\ global_step' = IncrementGlobalStep(global_step)
    /\ batches_done' = batches_done + 1
    /\ batch_idx' = batch_idx + 1
    /\ pc' = "next_batch"
    /\ UNCHANGED <<err, argsVars, experiment, fsVars, ctor_log, histVars,
                   mode, progress, summ_count, epoch, step, test_step,
                   start_step>>

Next ==
    \/ Ctor_Assert
    \/ Ctor_Folders
    \/ Ctor_Dataset
    \/ Ctor_Model
    \/ Ctor_Optimizer
    \/ Ctor_Check
    \/ Run_Setup
    \/ Run_NextBatch
    \/ Test_Begin
    \/ Test_Procedure
    \/ Test_Additional
    \/ Test_PrintLog
    \/ Test_Record
    \/ Test_End
    \/ Run_Checkpoint
    \/ Run_Forward
    \/ Run_Progress
    \/ Run_TrainLog
    \/ Run_OptStep

Spec == Init /\ [][Next]_vars

TypeOK ==
    /\ pc \in {"assert", "folders", "dataset", "model", "optimizer", "check",
               "constructed", "failed", "next_batch", "test",
               "test_procedure", "additional_testing", "print_test_log",
               "test_record", "test_end", "after_test", "forward",
               "progress_update", "train_log", "opt_step", "done", "error"}
    /\ mode \in {"unset", "train", "eval"}
    /\ progress \in {"None", "open", "closed"}
    /\ global_step \in Nat
    /\ dirs \subseteq {"results", "imgs", "checkpoints", "tensorboard"}

\* ---- properties ----

TestBody == {"test_procedure", "additional_testing", "print_test_log",
             "test_record", "test_end"}
TestErrors == {"test_procedure", "additional_testing", "print_test_log",
               "test_log_write"}
BatchBody == {"forward", "progress_update", "train_log", "opt_step"}

\* C1: when checkpoint_interval is not a multiple of test_log_interval the
\* construction fails on the assertion, and at that point no directory has
\* been created, no file written and no setup hook invoked.
C1_AssertBeforeSideEffects ==
    (checkpoint_interval % test_log_interval # 0 /\ pc # "assert") =>
        /\ pc = "failed" /\ err = "AssertionError:intervals"
        /\ dirs = {} /\ ~config_written /\ ~log_file.exists
        /\ tb_scalars = {} /\ ctor_log = <<>>
C1_Witness ==
    /\ pc = "failed" /\ err = "AssertionError:intervals"
    /\ checkpoint_interval % test_log_interval # 0

\* C2: in dry-run mode nothing is created or written at any point: no run
\* folder, no config.pkl, no log.pkl, no tensorboard scalar and no model
\* checkpoint call.
C2_DryRunWritesNothing ==
    dry_run =>
        /\ dirs = {} /\ ~config_written /\ ~log_file.exists
        /\ tb_scalars = {} /\ checkpoints = <<>>

\* C3: every record of the train history carries a step that is a multiple
\* of log_interval (run started at global_step 0).
C3_TrainStepsMultiple ==
    start_step = 0 =>
        \A i \in DOMAIN train_history :
            train_history[i].step % log_interval = 0

\* C4: after N fully processed batches from global_step 0 the train history
\* holds exactly floor(N / log_interval) records, and the history only ever
\* grows at its end.
C4_TrainHistoryCount ==
    /\ [](start_step = 0 /\ pc \in {"next_batch", "done"} =>
            Len(train_history) = batches_done \div log_interval)
    /\ [][IsPrefix(train_history, train_history')]_vars
C4_Witness ==
    /\ pc = "done" /\ start_step = 0 /\ log_interval = 2
    /\ batches_done = 3 /\ Len(train_history) = 1

\* C5: each content written to log.pkl contains, by step, the content that
\* was there before the write.
C5_PersistedSuperset ==
    [][~dry_run => Steps(log_file.content) \subseteq Steps(log_file'.content)]_vars

\* C6: the model is in eval mode throughout the body of _test and in train
\* mode once _test is over, whether it returned or raised.
C6_EvalDuringTrainAfter ==
    /\ pc \in TestBody => mode = "eval"
    /\ pc = "after_test" => mode = "train"
    /\ (pc = "error" /\ err \in TestErrors) => mode = "train"

\* C7: a model checkpoint is saved only at a step that is positive and a
\* multiple of checkpoint_interval.
C7_CheckpointCadence ==
    \A i \in DOMAIN checkpoints :
        checkpoints[i] > 0 /\ checkpoints[i] % checkpoint_interval = 0
C7_Witness == pc = "done" /\ Len(checkpoints) >= 1

\* C8 as stated: a construction that fails the completeness validation has
\* created no directory and written no config file (validation comes first).
C8_ValidationFirst ==
    (pc = "failed" /\ err = "AssertionError:check") =>
        dirs = {} /\ ~config_written

ExpectedCtorLog ==
    (IF dry_run THEN <<>> ELSE <<"makedirs", "config">>)
      \o <<"datamanager", "model">>
      \o (IF create_optimizer THEN <<"optimizer">> ELSE <<>>)
      \o <<"check">>

\* C8 amended: the constructor creates the run folders and writes the config
\* (both skipped in dry-run mode), then runs the setup hooks in the order
\* dataset, model, optimizer, and validates completeness last; a construction
\* that fails the validation has run the hooks and, unless dry-run, has
\* created the folders and written the config.
C8_ValidationLast ==
    /\ IsPrefix(ctor_log, ExpectedCtorLog)
    /\ pc \in {"constructed", "failed"} /\ err \in {"none", "AssertionError:check"}
         => ctor_log = ExpectedCtorLog
    /\ (pc = "failed" /\ err = "AssertionError:check" /\ ~dry_run) =>
         {"results", "imgs", "checkpoints"} \subseteq dirs /\ config_written
C8_Witness ==
    /\ pc = "failed" /\ err = "AssertionError:check" /\ ~dry_run
    /\ config_written

\* C9: a batch is preceded by an evaluation pass exactly when its step is a
\* multiple of test_log_interval (step 0 included); the pass is over before
\* the forward pass, its test-history record carries that step, and every
\* checkpoint step has a test record.
C9_TestCadence ==
    /\ pc \in BatchBody =>
         ((step % test_log_interval = 0) <=>
            (test_history # <<>> /\
             test_history[Len(test_history)].step = step))
    /\ pc \in BatchBody => mode = "train"
    /\ \A i \in DOMAIN test_history :
         test_history[i].step % test_log_interval = 0
    /\ \A i \in DOMAIN checkpoints : checkpoints[i] \in Steps(test_history)
C9_Witness ==
    /\ pc = "forward" /\ Len(checkpoints) >= 1 /\ Len(test_history) >= 2
    /\ step = checkpoints[Len(checkpoints)]

\* C10: progress.update() is never reached while progress is None, whatever
\* the global step was when run() started.
C10_ProgressCreated ==
    pc = "progress_update" => progress # "None"
====
